---------------------------- MODULE Spec2Model ----------------------------
(***************************************************************************)
(* A model of cardgames.py: the Card/Deck classes, the Player and          *)
(* GameState records, and the Poker class (betting_round, play,            *)
(* evaluate_hand, best_five_cards, show_results).                          *)
(*                                                                         *)
(* Four specifications share the module:                                   *)
(*   Spec          one hand of Poker.play, step by step                    *)
(*   SpecDeck      sequences of Deck.draw_card / Deck.deal calls           *)
(*   SpecEval      Poker.evaluate_hand applied to bounded inputs           *)
(*   SpecShowdown  Poker.show_results applied to bounded inputs            *)
(***************************************************************************)
EXTENDS Integers, Sequences, FiniteSets, TLC

VARIABLES
    \* ---- Poker.play (Spec)
    numPlayers,        \* Poker.num_players
    chips,             \* Player.chips, per player_id
    current_bet,       \* Player.current_bet
    is_active,         \* Player.is_active
    players_in_game,   \* GameState.players_in_game
    hand,              \* Player.hand
    board,             \* Poker.board
    deck,              \* Poker.deck.cards
    pot_size,          \* GameState.pot_size
    current_max_bet,   \* GameState.current_max_bet
    current_betting_round, \* GameState.current_betting_round
    pc,                \* where play() stands
    street,            \* which betting_round call of play() is running (1..4)
    idx,               \* the loop variable i of betting_round
    active_players,    \* the local counter of betting_round
    lastEvent,         \* what the last step did (prompt outcome, blind, ...)
    displayed,         \* player_ids whose hands display_hands printed
    evaluated,         \* player_ids whose hands show_results evaluated
    winners,           \* potential_winners of show_results
    \* ---- Deck (SpecDeck)
    dk_cards,          \* Deck.cards
    dk_drawn,          \* every card returned so far (a deal's cards round by round)
    dk_ret,            \* the value returned by the last call
    dk_call,           \* the last call and its outcome
    \* ---- evaluate_hand (SpecEval)
    ev_hand, ev_board, ev_result, ev_pc,
    \* ---- show_results (SpecShowdown)
    sd_hands, sd_board, sd_rankings, sd_winners, sd_pc

gameVars == <<numPlayers, chips, current_bet, is_active, players_in_game, hand,
              board, deck, pot_size, current_max_bet, current_betting_round, pc,
              street, idx,
              active_players, lastEvent, displayed, evaluated, winners>>
deckVars == <<dk_cards, dk_drawn, dk_ret, dk_call>>
evalVars == <<ev_hand, ev_board, ev_result, ev_pc>>
showVars == <<sd_hands, sd_board, sd_rankings, sd_winners, sd_pc>>
vars == <<gameVars, deckVars, evalVars, showVars>>

-----------------------------------------------------------------------------
(* Bounds of the model *)

\* the largest board handed to evaluate_hand / show_results in SpecEval, SpecShowdown
MaxBoard == 5

\* Spec: the most players of a game (Poker accepts 2 to 9)
MaxPlayers == 5

\* Spec: the numbers typed at the bet prompt are BIG_BLIND and 0, RaiseStep, ...,
\* MaxRaiseInput * RaiseStep
RaiseStep == 50
MaxRaiseInput == 3

\* SpecDeck: the largest n of draw_card(n), and the largest arguments of deal
MaxDraw == 5
MaxHands == 3
MaxCardsEach == 2

-----------------------------------------------------------------------------
(* Python's None *)
None == "None"

(* Card *)
SUITS == <<"Hearts", "Spades", "Diamonds", "Clubs">>
RANKS == <<"2", "3", "4", "5", "6", "7", "8", "9", "10", "J", "Q", "K", "A">>

Card(suit, rank) == [suit |-> suit, rank |-> rank]

\* Card.RANKS.index(rank): 0-based
RANKS_index == [r \in {RANKS[i] : i \in 1..Len(RANKS)} |->
                  (CHOOSE i \in 1..Len(RANKS) : RANKS[i] = r) - 1]

RankIndex(rank) == RANKS_index[rank]

-----------------------------------------------------------------------------
(* Python list helpers *)

Range(s) == {s[i] : i \in 1..Len(s)}

\* s[:n]
Take(s, n) == SubSeq(s, 1, IF n < Len(s) THEN n ELSE Len(s))

\* s[n:]
Drop(s, n) == SubSeq(s, (IF n < Len(s) THEN n ELSE Len(s)) + 1, Len(s))

\* a list built by a comprehension: its elements are computed once
AsList(f) == <<>> \o f

\* sorted(s, key=..., reverse=True), keys[i] being the key of s[i]: stable, equal
\* keys keep their input order
SortedDesc(s, keys) ==
    LET n == Len(s)
        pos == AsList([i \in 1..n |->
                  Cardinality({j \in 1..n : \/ keys[j] > keys[i]
                                            \/ keys[j] = keys[i] /\ j < i}) + 1])
    IN  [p \in 1..n |-> s[CHOOSE i \in 1..n : pos[i] = p]]

\* sorted(s, key=...): stable
SortedAsc(s, keys) ==
    LET n == Len(s)
        pos == AsList([i \in 1..n |->
                  Cardinality({j \in 1..n : \/ keys[j] < keys[i]
                                            \/ keys[j] = keys[i] /\ j < i}) + 1])
    IN  [p \in 1..n |-> s[CHOOSE i \in 1..n : pos[i] = p]]

CardValue(c) == RankIndex(c.rank)

\* [Card.RANKS.index(card.rank) for card in cards]
CardValues(cards) == AsList([i \in 1..Len(cards) |-> CardValue(cards[i])])

\* sorted(cards, key=lambda c: Card.RANKS.index(c.rank), reverse=True)
SortedByRankDesc(cards) == SortedDesc(cards, CardValues(cards))

\* sorted(values, reverse=True)
ValuesDesc(values) == SortedDesc(values, values)

\* sorted(values)
ValuesAsc(values) == SortedAsc(values, values)

\* [card for card in cards if card.rank == rank]
CardsOfRank(cards, rank) == SelectSeq(cards, LAMBDA c : c.rank = rank)

\* Python's ordering of two sequences of integers: a < b
SeqLess(a, b) ==
    \E k \in 1..(Len(a) + 1) :
        /\ \A j \in 1..(k - 1) : j <= Len(b) /\ a[j] = b[j]
        /\ k <= Len(b)
        /\ (k = Len(a) + 1 \/ a[k] < b[k])

-----------------------------------------------------------------------------
(* Deck *)

\* Deck.__init__: [Card(suit, rank) for suit in Card.SUITS for rank in Card.RANKS]
FreshDeck ==
    [k \in 1..(Len(SUITS) * Len(RANKS)) |->
        Card(SUITS[((k - 1) \div Len(RANKS)) + 1], RANKS[((k - 1) % Len(RANKS)) + 1])]

Reverse(s) == [i \in 1..Len(s) |-> s[Len(s) + 1 - i]]

\* the two halves of s interleaved, the second half first
Riffle(s) ==
    LET half == Len(s) \div 2
    IN  [i \in 1..Len(s) |-> IF i > 2 * half THEN s[i]
                             ELSE IF i % 2 = 1 THEN s[half + (i + 1) \div 2]
                             ELSE s[i \div 2]]

\* Deck.shuffle: some permutation of the cards; these three stand for all of them
ShuffleOutcomes(cards) == {cards, Reverse(cards), Riffle(cards)}

\* a draw without the check of the deck's length
DrawCardShort(cards, n) ==
    IF n <= 0
    THEN [error |-> "ValueError: The number of cards to draw must be a positive integer.",
          ret |-> None, cards |-> cards]
    ELSE [error |-> None, ret |-> Take(cards, n), cards |-> Drop(cards, n)]

\* Deck.draw_card(n): the error raised (or None), the cards returned, the cards left.
\* Arguments are integers here, so isinstance(n, int) holds.
draw_card(cards, n) ==
    IF n <= 0
    THEN [error |-> "ValueError: The number of cards to draw must be a positive integer.",
          ret |-> None, cards |-> cards]
    ELSE IF n > Len(cards)
    THEN [error |-> "ValueError: Not enough cards left in the deck.",
          ret |-> None, cards |-> cards]
    ELSE [error |-> None, ret |-> Take(cards, n), cards |-> Drop(cards, n)]

\* the two loops of Deck.deal, step t of num_hands * num_cards: one card to
\* hand (t mod num_hands), as long as cards are left
RECURSIVE DealLoop(_, _, _, _, _)
DealLoop(cards, hands, t, num_hands, num_cards) ==
    IF t = num_hands * num_cards THEN [hands |-> hands, cards |-> cards]
    ELSE IF cards = <<>> THEN DealLoop(cards, hands, t + 1, num_hands, num_cards)
    ELSE LET d == draw_card(cards, 1)
             h == (t % num_hands) + 1
         IN  DealLoop(d.cards, [hands EXCEPT ![h] = @ \o d.ret], t + 1,
                      num_hands, num_cards)

\* Deck.deal(num_hands, num_cards)
deal(cards, num_hands, num_cards) ==
    IF num_hands <= 0 \/ num_cards <= 0
    THEN [error |-> "ValueError: Number of hands and cards must be positive integers.",
          ret |-> None, cards |-> cards]
    ELSE IF num_hands * num_cards > Len(cards)
    THEN [error |-> "ValueError: Not enough cards in the deck to deal.",
          ret |-> None, cards |-> cards]
    ELSE LET r == DealLoop(cards, [h \in 1..num_hands |-> <<>>], 0, num_hands, num_cards)
         IN  [error |-> None, ret |-> r.hands, cards |-> r.cards]

\* the cards of a list of hands, hand by hand
RECURSIVE Flatten(_)
Flatten(hands) == IF hands = <<>> THEN <<>> ELSE Head(hands) \o Flatten(Tail(hands))

\* the cards of a list of hands, round by round: the first card of every hand,
\* then the second of every hand that has one, ...
RECURSIVE ByRounds(_)
ByRounds(hands) ==
    LET left == SelectSeq(hands, LAMBDA h : h # <<>>)
    IN  IF left = <<>> THEN <<>>
        ELSE [k \in 1..Len(left) |-> Head(left[k])]
                \o ByRounds([k \in 1..Len(left) |-> Tail(left[k])])

-----------------------------------------------------------------------------
(* Poker: hand evaluation *)

HAND_RANKINGS ==
    ("Royal Flush" :> 11) @@ ("Straight Flush" :> 10) @@ ("Four of a Kind" :> 9) @@
    ("Full House" :> 8) @@ ("Flush" :> 7) @@ ("Straight" :> 6) @@
    ("Three of a Kind" :> 5) @@ ("Two Pair" :> 4) @@ ("Pair" :> 3) @@
    ("High Card" :> 2)

is_flush(cards) == Cardinality({cards[i].suit : i \in 1..Len(cards)}) = 1

wheel == <<12, 0, 1, 2, 3>>

is_straight(cards) ==
    LET values == ValuesAsc(CardValues(cards))
    IN  \/ \A i \in 1..(Len(values) - 1) : values[i + 1] - values[i] = 1
        \/ values = wheel

\* Counter(card.rank for card in cards).most_common(): <<rank, count>> pairs by
\* count, highest first; equal counts keep the order of first occurrence
get_counts(cards) ==
    LET n == Len(cards)
        firsts == SelectSeq([i \in 1..n |-> i],
                            LAMBDA i : \A j \in 1..(i - 1) : cards[j].rank # cards[i].rank)
        items == [k \in 1..Len(firsts) |->
                    <<cards[firsts[k]].rank,
                      Cardinality({j \in 1..n : cards[j].rank = cards[firsts[k]].rank})>>]
    IN  SortedDesc(items, AsList([i \in 1..Len(items) |-> items[i][2]]))

get_pairs(counts, n_pairs) ==
    LET twos == SelectSeq(counts, LAMBDA it : it[2] = 2)
    IN  Take([k \in 1..Len(twos) |-> twos[k][1]], n_pairs)

FirstWithCount(counts, n) ==
    IF \E k \in 1..Len(counts) : counts[k][2] = n
    THEN counts[CHOOSE k \in 1..Len(counts) :
                    /\ counts[k][2] = n
                    /\ \A j \in 1..(k - 1) : counts[j][2] # n][1]
    ELSE None

get_three_of_a_kind(counts) == FirstWithCount(counts, 3)

get_four_of_a_kind(counts) == FirstWithCount(counts, 4)

\* each has_* returns <<found, ranks>>
has_pair(all_cards) ==
    LET pair == get_pairs(get_counts(all_cards), 1)
    IN  IF pair # <<>> THEN <<TRUE, pair>> ELSE <<FALSE, None>>

has_two_pairs(all_cards) ==
    LET pairs == get_pairs(get_counts(all_cards), 2)
    IN  IF Len(pairs) = 2 THEN <<TRUE, pairs>> ELSE <<FALSE, None>>

has_three_of_a_kind(all_cards) ==
    LET three == get_three_of_a_kind(get_counts(all_cards))
    IN  IF three # None THEN <<TRUE, <<three>>>> ELSE <<FALSE, None>>

has_full_house(all_cards) ==
    LET counts == get_counts(all_cards)
        three == get_three_of_a_kind(counts)
        pair == get_pairs(counts, 1)
    IN  IF three # None /\ pair # <<>> THEN <<TRUE, <<three, pair[1]>>>>
        ELSE <<FALSE, None>>

has_four_of_a_kind(all_cards) ==
    LET four == get_four_of_a_kind(get_counts(all_cards))
    IN  IF four # None THEN <<TRUE, <<four>>>> ELSE <<FALSE, None>>

\* the other cards sorted lowest first, cut to one
RemainingCardLowest(all_cards, rank) ==
    LET rest == SelectSeq(all_cards, LAMBDA c : c.rank # rank)
    IN  Take(SortedAsc(rest, CardValues(rest)), 1)

\* the kicker of four of a kind: the other cards, highest first, cut to one
remaining_card(all_cards, rank) ==
    Take(SortedByRankDesc(SelectSeq(all_cards, LAMBDA c : c.rank # rank)), 1)

\* max(hand, key=rank index): the first card of the highest rank
HighestCard(cards) ==
    cards[CHOOSE i \in 1..Len(cards) :
            /\ \A j \in 1..Len(cards) : CardValue(cards[j]) <= CardValue(cards[i])
            /\ \A j \in 1..(i - 1) : CardValue(cards[j]) < CardValue(cards[i])]

\* evaluate_hand returns the pair <<ranking, contributing cards>>
RECURSIVE evaluate_hand(_, _)
evaluate_hand(hnd, brd) ==
    IF hnd = <<>> THEN <<0, <<>>>>
    ELSE
    LET all_cards == hnd \o brd
        board_ranking == evaluate_hand(<<>>, brd)[1]
        four == has_four_of_a_kind(all_cards)
        full == has_full_house(all_cards)
        three == has_three_of_a_kind(all_cards)
        two == has_two_pairs(all_cards)
        pair == has_pair(all_cards)
    IN  IF is_flush(all_cards) /\ is_straight(all_cards) THEN
            IF {all_cards[i].rank : i \in 1..Len(all_cards)} = {"10", "J", "Q", "K", "A"}
            THEN <<HAND_RANKINGS["Royal Flush"], all_cards>>
            ELSE IF HAND_RANKINGS["Straight Flush"] >= board_ranking
                 THEN <<HAND_RANKINGS["Straight Flush"], all_cards>>
                 ELSE <<board_ranking, <<>>>>
        ELSE IF four[1] THEN
            <<HAND_RANKINGS["Four of a Kind"],
              SortedByRankDesc(CardsOfRank(all_cards, four[2][1]))
                \o remaining_card(all_cards, four[2][1])>>
        ELSE IF full[1] THEN
            <<HAND_RANKINGS["Full House"],
              SortedByRankDesc(CardsOfRank(all_cards, full[2][1]))
                \o SortedByRankDesc(CardsOfRank(all_cards, full[2][2]))>>
        ELSE IF is_flush(all_cards) THEN <<HAND_RANKINGS["Flush"], all_cards>>
        ELSE IF is_straight(all_cards) THEN <<HAND_RANKINGS["Straight"], all_cards>>
        ELSE IF three[1] THEN
            <<HAND_RANKINGS["Three of a Kind"], CardsOfRank(all_cards, three[2][1])>>
        ELSE IF two[1] THEN
            <<HAND_RANKINGS["Two Pair"],
              CardsOfRank(all_cards, two[2][1]) \o CardsOfRank(all_cards, two[2][2])>>
        ELSE IF pair[1] THEN
            <<HAND_RANKINGS["Pair"], CardsOfRank(all_cards, pair[2][1])>>
        ELSE IF HAND_RANKINGS["High Card"] >= board_ranking
             THEN <<HAND_RANKINGS["High Card"], <<HighestCard(hnd)>>>>
             ELSE <<board_ranking, <<>>>>

\* best_five_cards: the rank values, highest first, of the greatest 5-card
\* combination; [] when there are fewer than five cards
best_five_cards(cards) ==
    LET card_values == ValuesDesc(CardValues(cards))
        n == Len(card_values)
        picks == {S \in SUBSET (1..n) : Cardinality(S) = 5}
        comb(S) == LET kept == SelectSeq([k \in 1..n |-> k], LAMBDA k : k \in S)
                   IN  [k \in 1..5 |-> card_values[kept[k]]]
        combs == {comb(S) : S \in picks}
    IN  IF combs = {} THEN <<>>
        ELSE CHOOSE c \in combs : \A d \in combs : ~SeqLess(c, d)


\* the key show_results hands to max(): (ranking, best_five_cards(cards))
ShowdownKey(x) == <<x[1], best_five_cards(x[2])>>

\* Python's tuple ordering of two such keys: a < b
KeyLess(a, b) == a[1] < b[1] \/ (a[1] = b[1] /\ SeqLess(a[2], b[2]))

\* show_results over the players' hole cards (a function of player_id) and the
\* board: the rankings, the ids in potential_winners, and whether the category
\* lookup of the printing loop raised IndexError before the winners were printed
\* max(): the place of the first element no other element's key exceeds
FirstMax(keys) ==
    CHOOSE k \in 1..Len(keys) :
        /\ \A j \in 1..Len(keys) : ~KeyLess(keys[k], keys[j])
        /\ \A j \in 1..(k - 1) : KeyLess(keys[j], keys[k])

\* the players whose ranking equals max_rank, and the printing loop's outcome
PotentialWinners(hands, hand_rankings, max_rank) ==
    LET n == Len(hand_rankings)
        categories == {HAND_RANKINGS[c] : c \in DOMAIN HAND_RANKINGS}
        rankings == [i \in DOMAIN hands |-> hand_rankings[i + 1]]
    IN  IF \E k \in 1..n : hand_rankings[k][1] \notin categories
        THEN [winners |-> {}, rankings |-> rankings, error |-> "IndexError"]
        ELSE [winners |-> {k - 1 : k \in {j \in 1..n : hand_rankings[j] = max_rank}},
              rankings |-> rankings, error |-> None]

RankedResults(hands, hand_rankings) ==
    PotentialWinners(hands, hand_rankings,
        hand_rankings[FirstMax(AsList([k \in 1..Len(hand_rankings) |->
                                          ShowdownKey(hand_rankings[k])]))])

show_results(hands, brd) ==
    RankedResults(hands, AsList([k \in 1..Cardinality(DOMAIN hands) |->
                                    evaluate_hand(hands[k - 1], brd)]))

-----------------------------------------------------------------------------
(* Player *)

INITIAL_CHIPS == 100

\* Player.bet on a player's (chips, current_bet): the error raised (or None) and
\* the two fields afterwards
bet(c, cb, amount) ==
    IF amount > c
    THEN [error |-> "ValueError: Player doesn't have enough chips.",
          chips |-> c, current_bet |-> cb]
    ELSE [error |-> None, chips |-> c - amount, current_bet |-> amount]

all_in(c, cb) == bet(c, cb, c)

\* a call that bets the amount whatever the stack
CallWithoutAllIn(c, cb, amount) == bet(c, cb, amount)

call(c, cb, amount) == IF amount > c THEN all_in(c, cb) ELSE bet(c, cb, amount)

raise_bet(c, cb, amount) ==
    IF amount <= cb
    THEN [error |-> "ValueError: Raise must be more than the current bet.",
          chips |-> c, current_bet |-> cb]
    ELSE bet(c, cb, amount)

(* GameState *)

update_pot(pot, b) == pot + b

update_max_bet(max_bet, b) == IF b > max_bet THEN b ELSE max_bet

(* Poker: constants and betting *)

BIG_BLIND == 10
SMALL_BLIND == 5
VALID_ACTIONS == {"fold", "call", "raise"}
MIN_PLAYERS == 2

\* what is typed at the action prompt, after lower().strip()
ActionInputs == VALID_ACTIONS \cup {"check"}

\* what is typed at the bet prompt: a number, or (NotDigits) text for which
\* str.isdigit() is false
NotDigits == -1
RaiseInputs ==
    {NotDigits, BIG_BLIND} \cup {k * RaiseStep : k \in 0..MaxRaiseInput}

\* an input check that lets an amount equal to the max bet through
RaiseInputTakenAtMaxBet(input, max_bet, c) ==
    /\ input # NotDigits
    /\ ~(input < max_bet \/ input > c \/ input < 2 * BIG_BLIND)

\* the condition of the while loop at the bet prompt, negated: the input is taken
RaiseInputTaken(input, max_bet, c) ==
    /\ input # NotDigits
    /\ ~(input <= max_bet \/ input > c \/ input < 2 * BIG_BLIND)

Players == 0..(numPlayers - 1)

\* Poker.player_positions, as __init__ leaves it (update_player_positions is never called)
player_positions == [k \in 1..numPlayers |-> k - 1]
small_blind_player_idx == player_positions[1]
big_blind_player_idx == player_positions[2]

\* start_index of the running betting_round
start_index == IF street = 1 THEN 2 ELSE 0

\* the player at place i of self.players[start_index:] + self.players[:start_index]
SeatAt(i) == (i + start_index) % numPlayers

\* burn_and_draw(n) on (deck, board): one card burnt, n cards to the board
burn_and_draw(cards, brd, n) ==
    LET burn == draw_card(cards, 1)
        drawn == draw_card(burn.cards, n)
    IN  IF burn.error # None THEN [error |-> burn.error, cards |-> cards, board |-> brd]
        ELSE IF drawn.error # None
        THEN [error |-> drawn.error, cards |-> burn.cards, board |-> brd]
        ELSE [error |-> None, cards |-> drawn.cards, board |-> brd \o drawn.ret]

deal_flop(cards, brd) == burn_and_draw(cards, brd, 3)
deal_turn(cards, brd) == burn_and_draw(cards, brd, 1)
deal_river(cards, brd) == burn_and_draw(cards, brd, 1)

deal_community_cards(cards, brd) ==
    LET f == deal_flop(cards, brd)
        t == deal_turn(f.cards, f.board)
        r == deal_river(t.cards, t.board)
    IN  IF f.error # None THEN f ELSE IF t.error # None THEN t ELSE r

-----------------------------------------------------------------------------
(* Inputs of SpecEval and SpecShowdown: deals out of three cuts of the deck. *)
(* The hole cards come in either order, the board in the order of the cut;  *)
(* the reordering steps below hand the same cards over in another order.    *)

QuadsCards == <<Card("Clubs", "2"), Card("Diamonds", "2"), Card("Hearts", "2"),
                Card("Spades", "2"), Card("Clubs", "9"), Card("Diamonds", "9"),
                Card("Clubs", "5"), Card("Hearts", "9")>>

RoyalCards == <<Card("Spades", "Q"), Card("Spades", "J"), Card("Spades", "10"),
                Card("Hearts", "2"), Card("Diamonds", "3"), Card("Spades", "A"),
                Card("Spades", "K"), Card("Spades", "9")>>

WheelCards == <<Card("Spades", "A"), Card("Hearts", "2"), Card("Diamonds", "3"),
                Card("Clubs", "4"), Card("Spades", "5"), Card("Hearts", "6"),
                Card("Spades", "2"), Card("Diamonds", "7")>>

CardLists == {QuadsCards, RoyalCards, WheelCards}

\* the sequences of k distinct cards of the set S
Deals(S, k) == {f \in [1..k -> S] : \A i, j \in 1..k : i # j => f[i] # f[j]}

\* the cards of the set S in the order of the cut
InOrder(cut, S) == SelectSeq(cut, LAMBDA c : c \in S)

\* the boards of at most MaxBoard cards out of the set S
BoardsFrom(cut, S) == {InOrder(cut, I) : I \in {J \in SUBSET S : Cardinality(J) <= MaxBoard}}

\* s with the elements at k and k+1 exchanged
SwapAt(s, k) == [i \in 1..Len(s) |-> IF i = k THEN s[k + 1]
                                      ELSE IF i = k + 1 THEN s[k] ELSE s[i]]

-----------------------------------------------------------------------------
(* Values of the variables a specification does not use *)

GameIdle ==
    /\ numPlayers = 0 /\ chips = <<>> /\ current_bet = <<>> /\ is_active = <<>>
    /\ players_in_game = <<>> /\ hand = <<>> /\ board = <<>> /\ deck = <<>>
    /\ pot_size = 0 /\ current_max_bet = 0 /\ current_betting_round = 0
    /\ pc = "idle" /\ street = 0 /\ idx = 0
    /\ active_players = 0 /\ lastEvent = None /\ displayed = {} /\ evaluated = {}
    /\ winners = {}

DeckIdle == dk_cards = <<>> /\ dk_drawn = <<>> /\ dk_ret = None /\ dk_call = None

EvalIdle == ev_hand = <<>> /\ ev_board = <<>> /\ ev_result = None /\ ev_pc = "idle"

ShowIdle ==
    /\ sd_hands = <<>> /\ sd_board = <<>> /\ sd_rankings = <<>> /\ sd_winners = {}
    /\ sd_pc = "idle"

-----------------------------------------------------------------------------
(* SpecEval: evaluate_hand(hand, board) for a dealt two-card hand *)

EvalInit ==
    /\ GameIdle /\ DeckIdle /\ ShowIdle
    /\ \E cut \in CardLists :
         /\ ev_hand \in Deals(Range(cut), 2)
         /\ ev_board \in BoardsFrom(cut, Range(cut) \ Range(ev_hand))
    /\ ev_result = None
    /\ ev_pc = "input"

Evaluate ==
    /\ ev_pc = "input"
    /\ ev_result' = evaluate_hand(ev_hand, ev_board)
    /\ ev_pc' = "done"
    /\ UNCHANGED <<ev_hand, ev_board, gameVars, deckVars, showVars>>

\* the same cards handed over in another order: the two hole cards exchanged
EvaluateHoleSwapped ==
    /\ ev_pc = "done"
    /\ ev_hand' = SwapAt(ev_hand, 1)
    /\ ev_result' = evaluate_hand(ev_hand', ev_board)
    /\ ev_pc' = "reordered"
    /\ UNCHANGED <<ev_board, gameVars, deckVars, showVars>>

\* the same cards handed over in another order: two board cards exchanged
EvaluateBoardSwapped ==
    /\ ev_pc = "done"
    /\ \E k \in 1..(Len(ev_board) - 1) :
         /\ ev_board' = SwapAt(ev_board, k)
         /\ ev_result' = evaluate_hand(ev_hand, ev_board')
    /\ ev_pc' = "reordered"
    /\ UNCHANGED <<ev_hand, gameVars, deckVars, showVars>>

EvalNext == Evaluate \/ EvaluateHoleSwapped \/ EvaluateBoardSwapped

SpecEval == EvalInit /\ [][EvalNext]_vars

-----------------------------------------------------------------------------
(* SpecShowdown: show_results for two players and a shared board.  Each hand *)
(* is a pair of cards of the cut, so both seat orders of any two hands occur. *)

ShowdownCards == <<Card("Spades", "K"), Card("Hearts", "K"), Card("Clubs", "9"),
                   Card("Diamonds", "9"), Card("Clubs", "5"), Card("Diamonds", "5"),
                   Card("Spades", "A"), Card("Hearts", "A"), Card("Diamonds", "2")>>

PairsFrom(cut, S) == {InOrder(cut, I) : I \in {J \in SUBSET S : Cardinality(J) = 2}}

ShowInit ==
    /\ GameIdle /\ DeckIdle /\ EvalIdle
    /\ \E h0 \in PairsFrom(ShowdownCards, Range(ShowdownCards)) :
         \E h1 \in PairsFrom(ShowdownCards, Range(ShowdownCards) \ Range(h0)) :
           /\ sd_hands = (0 :> h0) @@ (1 :> h1)
           /\ sd_board \in BoardsFrom(ShowdownCards,
                                      Range(ShowdownCards) \ (Range(h0) \cup Range(h1)))
    /\ sd_rankings = <<>>
    /\ sd_winners = {}
    /\ sd_pc = "input"

ShowdownResult(r) == sd_rankings' = r.rankings /\ sd_winners' = r.winners

ShowResults ==
    /\ sd_pc = "input"
    /\ ShowdownResult(show_results(sd_hands, sd_board))
    /\ sd_pc' = "done"
    /\ UNCHANGED <<sd_hands, sd_board, gameVars, deckVars, evalVars>>

ShowNext == ShowResults

SpecShowdown == ShowInit /\ [][ShowNext]_vars

-----------------------------------------------------------------------------
(* Notions the claims are stated in *)

\* the tie-break key of a ranking: the rank values of its contributing cards,
\* highest first
TieBreakKey(cards) == ValuesDesc(CardValues(cards))

\* the ranks of the cards, in their order
RankNames(cards) == [i \in 1..Len(cards) |-> cards[i].rank]

\* the total order on rankings: category first, then the tie-break key
RankingBelow(a, b) ==
    a[1] < b[1] \/ (a[1] = b[1] /\ SeqLess(TieBreakKey(a[2]), TieBreakKey(b[2])))

CountOfRank(cards, rank) == Cardinality({i \in 1..Len(cards) : cards[i].rank = rank})

AllRanks == Range(RANKS)

\* five cards of one suit in sequence (the wheel included) among the cards
HoldsStraightFlush(cards) ==
    \E suit \in Range(SUITS) :
        \/ \E low \in 1..(Len(RANKS) - 4) :
              \A k \in 0..4 : Card(suit, RANKS[low + k]) \in Range(cards)
        \/ \A r \in {"A", "2", "3", "4", "5"} : Card(suit, r) \in Range(cards)

EvAllCards == ev_hand \o ev_board

Evaluated == ev_pc \in {"done", "reordered"}

-----------------------------------------------------------------------------
(* C4: in show_results, two players with the same category and the same      *)
(* tie-break key, that ranking being the maximum, are both in the winner set, *)
(* whatever the seat order and the suits.                                     *)
C4_TiedPlayersBothWin ==
    sd_pc = "done" =>
        \A p, q \in DOMAIN sd_hands :
            ( /\ p # q
              /\ sd_rankings[p][1] = sd_rankings[q][1]
              /\ TieBreakKey(sd_rankings[p][2]) = TieBreakKey(sd_rankings[q][2])
              /\ \A o \in DOMAIN sd_hands : ~RankingBelow(sd_rankings[p], sd_rankings[o]) )
            => {p, q} \subseteq sd_winners

\* the failing input is reached: before the flop both players hold king-five, a
\* king-high High Card each, and only the first seat is reported
C4_FailingInputReached ==
    /\ sd_pc = "done"
    /\ sd_hands[0] = <<Card("Spades", "K"), Card("Clubs", "5")>>
    /\ sd_hands[1] = <<Card("Hearts", "K"), Card("Diamonds", "5")>>
    /\ sd_board = <<>>
    /\ sd_rankings[0] = <<HAND_RANKINGS["High Card"], <<Card("Spades", "K")>>>>
    /\ sd_rankings[1] = <<HAND_RANKINGS["High Card"], <<Card("Hearts", "K")>>>>
    /\ sd_winners = {0}

(* C6: evaluate_hand reports Royal Flush whenever the hole and board cards    *)
(* contain 10, J, Q, K, A of one suit, whatever the other cards are.          *)
C6_RoyalFlushReported ==
    ( /\ Evaluated
      /\ \E suit \in Range(SUITS) :
            \A r \in {"10", "J", "Q", "K", "A"} : Card(suit, r) \in Range(EvAllCards) )
    => ev_result[1] = HAND_RANKINGS["Royal Flush"]

\* the spec's example is evaluated, and comes out as High Card
C6_FailingInputReached ==
    /\ ev_pc = "done"
    /\ ev_hand = <<Card("Spades", "A"), Card("Spades", "K")>>
    /\ ev_board = <<Card("Spades", "Q"), Card("Spades", "J"), Card("Spades", "10"),
                    Card("Hearts", "2"), Card("Diamonds", "3")>>
    /\ ev_result = <<HAND_RANKINGS["High Card"], <<Card("Spades", "A")>>>>

(* C7: when one rank appears at least 3 times and another at least 2 times,   *)
(* with no four of a kind and no straight flush, evaluate_hand reports Full   *)
(* House and never Three of a Kind.                                           *)
C7_FullHouseReported ==
    ( /\ Evaluated
      /\ \E r1, r2 \in AllRanks :
            /\ r1 # r2
            /\ CountOfRank(EvAllCards, r1) >= 3
            /\ CountOfRank(EvAllCards, r2) >= 2
      /\ \A r \in AllRanks : CountOfRank(EvAllCards, r) < 4
      /\ ~HoldsStraightFlush(EvAllCards) )
    => ev_result[1] = HAND_RANKINGS["Full House"]

\* two ranks three times each: reported as Three of a Kind
C7_FailingInputReached ==
    /\ ev_pc = "done"
    /\ ev_hand = <<Card("Clubs", "2"), Card("Diamonds", "2")>>
    /\ ev_board = <<Card("Hearts", "2"), Card("Clubs", "9"), Card("Diamonds", "9"),
                    Card("Clubs", "5"), Card("Hearts", "9")>>
    /\ ev_result[1] = HAND_RANKINGS["Three of a Kind"]

\* the 6-high straight the wheel is compared with
SixHighStraight ==
    evaluate_hand(<<Card("Hearts", "2"), Card("Diamonds", "3")>>,
                  <<Card("Clubs", "4"), Card("Spades", "5"), Card("Hearts", "6")>>)

(* C8: the five cards A,2,3,4,5 and the five cards 2,3,4,5,6 (neither of one  *)
(* suit) are both category Straight, and the wheel is strictly below the      *)
(* 6-high straight under the key show_results compares.                       *)
C8_WheelBelowSixHighStraight ==
    ( /\ Evaluated
      /\ Len(EvAllCards) = 5
      /\ ~is_flush(EvAllCards) )
    => /\ {c.rank : c \in Range(EvAllCards)} = {"2", "3", "4", "5", "6"}
            => ev_result[1] = HAND_RANKINGS["Straight"]
       /\ {c.rank : c \in Range(EvAllCards)} = {"A", "2", "3", "4", "5"}
            => /\ ev_result[1] = HAND_RANKINGS["Straight"]
               /\ SixHighStraight[1] = HAND_RANKINGS["Straight"]
               /\ KeyLess(ShowdownKey(ev_result), ShowdownKey(SixHighStraight))

\* the wheel is evaluated, and comes out as High Card
C8_FailingInputReached ==
    /\ ev_pc = "done"
    /\ ev_hand = <<Card("Spades", "A"), Card("Hearts", "2")>>
    /\ ev_board = <<Card("Diamonds", "3"), Card("Clubs", "4"), Card("Spades", "5")>>
    /\ ev_result = <<HAND_RANKINGS["High Card"], <<Card("Spades", "A")>>>>

(* C9: evaluate_hand gives the same category and the same rank values of the  *)
(* contributing cards when the hole cards or the board cards are handed over  *)
(* in another order.                                                          *)
C9_OrderInvariant ==
    [][ (ev_pc = "done" /\ ev_pc' = "reordered")
        => /\ ev_result'[1] = ev_result[1]
           /\ TieBreakKey(ev_result'[2]) = TieBreakKey(ev_result[2]) ]_vars

\* the hole cards <<2, 9>> exchanged, with two more of each rank on the board:
\* Three of a Kind of nines where it was Three of a Kind of twos
C9_FailingInputReached ==
    /\ ev_pc = "reordered"
    /\ ev_hand = <<Card("Hearts", "9"), Card("Hearts", "2")>>
    /\ ev_board = <<Card("Diamonds", "2"), Card("Spades", "2"), Card("Clubs", "9"),
                    Card("Diamonds", "9"), Card("Clubs", "5")>>
    /\ ev_result[1] = HAND_RANKINGS["Three of a Kind"]
    /\ RankNames(ev_result[2]) = <<"9", "9", "9">>

-----------------------------------------------------------------------------
(* SpecDeck: draw_card and deal called in any order on a 52-card deck *)

\* the integer arguments tried: not positive, small, and (late in the deck) more
\* than the cards left
DrawArgs == -1..MaxDraw

DeckInit ==
    /\ GameIdle /\ EvalIdle /\ ShowIdle
    /\ dk_cards \in ShuffleOutcomes(FreshDeck)
    /\ dk_drawn = <<>>
    /\ dk_ret = None
    /\ dk_call = [op |-> "none", args |-> <<>>, error |-> None]

DrawCard ==
    \E n \in DrawArgs :
        LET r == draw_card(dk_cards, n)
        IN  /\ dk_cards' = r.cards
            /\ dk_ret' = r.ret
            /\ dk_drawn' = IF r.error = None THEN dk_drawn \o r.ret ELSE dk_drawn
            /\ dk_call' = [op |-> "draw_card", args |-> <<n>>, error |-> r.error]
            /\ UNCHANGED <<gameVars, evalVars, showVars>>

Deal ==
    \E num_hands \in 0..MaxHands, num_cards \in 0..MaxCardsEach :
        LET r == deal(dk_cards, num_hands, num_cards)
        IN  /\ dk_cards' = r.cards
            /\ dk_ret' = r.ret
            /\ dk_drawn' = IF r.error = None THEN dk_drawn \o ByRounds(r.ret) ELSE dk_drawn
            /\ dk_call' = [op |-> "deal", args |-> <<num_hands, num_cards>>,
                           error |-> r.error]
            /\ UNCHANGED <<gameVars, evalVars, showVars>>

DeckNext == DrawCard \/ Deal

SpecDeck == DeckInit /\ [][DeckNext]_vars

(* C5: after any sequence of draw_card and deal calls, the cards drawn so far *)
(* and the cards remaining are exactly the 52 cards, none twice; a call that  *)
(* fails leaves the deck as it was; a draw asking for more than remain fails; *)
(* a successful draw of n returns exactly n cards, a successful deal          *)
(* num_cards cards to each of num_hands hands.                                *)
C5_DeckConserved ==
    /\ [](/\ Len(dk_drawn) + Len(dk_cards) = Len(FreshDeck)
          /\ Range(dk_drawn) \cup Range(dk_cards) = Range(FreshDeck)
          /\ Cardinality(Range(FreshDeck)) = 52)
    /\ [][ /\ dk_call'.error # None => (dk_cards' = dk_cards /\ dk_drawn' = dk_drawn)
           /\ dk_call'.op = "draw_card" =>
                LET n == dk_call'.args[1]
                IN  /\ n > Len(dk_cards) => dk_call'.error # None
                    /\ dk_call'.error = None =>
                          /\ Len(dk_ret') = n
                          /\ dk_ret' \o dk_cards' = dk_cards
           /\ (dk_call'.op = "deal" /\ dk_call'.error = None) =>
                /\ Len(dk_ret') = dk_call'.args[1]
                /\ \A h \in 1..Len(dk_ret') : Len(dk_ret'[h]) = dk_call'.args[2]
                /\ Range(Flatten(dk_ret')) \cup Range(dk_cards') = Range(dk_cards)
         ]_vars

\* after successful draws and deals, a draw asks for more cards than remain and
\* fails, and a draw of what remains succeeds
C5_OverdrawRefused ==
    /\ dk_call.op = "draw_card"
    /\ dk_call.error = "ValueError: Not enough cards left in the deck."
    /\ dk_call.args[1] > Len(dk_cards)
    /\ Len(dk_cards) > 0
    /\ Len(dk_drawn) > 40

-----------------------------------------------------------------------------
(* Spec: one hand of Poker.play.                                              *)
(* pc: "deal" before deal_hole_cards; "loop" at the head of betting_round's   *)
(* for loop (for a seat that acts, at its action prompt); "ask_raise" at the  *)
(* bet prompt; "returned" when betting_round has returned; "done" after       *)
(* show_results; "crashed" when an exception ended play.                      *)

Init ==
    /\ DeckIdle /\ EvalIdle /\ ShowIdle
    /\ numPlayers \in MIN_PLAYERS..MaxPlayers
    /\ chips = [p \in Players |-> INITIAL_CHIPS]
    /\ current_bet = [p \in Players |-> 0]
    /\ is_active = [p \in Players |-> TRUE]
    /\ players_in_game = [p \in Players |-> TRUE]
    /\ hand = [p \in Players |-> <<>>]
    /\ board = <<>>
    /\ deck \in ShuffleOutcomes(FreshDeck)
    /\ pot_size = 0
    /\ current_max_bet = 0
    /\ current_betting_round = 0
    /\ pc = "deal"
    /\ street = 0
    /\ idx = 0
    /\ active_players = 0
    /\ lastEvent = [kind |-> "init", seat |-> -1, input |-> 0, error |-> None]
    /\ displayed = {}
    /\ evaluated = {}
    /\ winners = {}

\* what the last step did: its kind, the seat it was about, the input or amount it
\* took, and the exception it raised (or None)
Event(kind, seat, input, error) ==
    [kind |-> kind, seat |-> seat, input |-> input, error |-> error]

cardVars == <<hand, board, deck>>
seatVars == <<chips, current_bet, is_active, players_in_game>>
potVars == <<pot_size, current_max_bet>>
resultVars == <<displayed, evaluated, winners>>
otherSpecs == <<deckVars, evalVars, showVars>>

\* play: deal_hole_cards, then betting_round(first_round=True) starts
DealHoleCards ==
    /\ pc = "deal"
    /\ LET d == deal(deck, numPlayers, 2)
       IN  IF d.error # None
           THEN /\ pc' = "crashed"
                /\ lastEvent' = Event("hole cards", -1, 0, d.error)
                /\ UNCHANGED <<hand, deck, street>>
           ELSE /\ hand' = [p \in Players |-> d.ret[p + 1]]
                /\ deck' = d.cards
                /\ street' = 1
                /\ pc' = "loop"
                /\ lastEvent' = Event("hole cards", -1, 0, None)
    /\ idx' = 0
    /\ active_players' = 0
    /\ UNCHANGED <<numPlayers, board, seatVars, potVars, current_betting_round,
                   resultVars, otherSpecs>>

\* a forced bet of the for loop: player.bet(blind), nothing else
PostBlind(kind, blind) ==
    LET p == SeatAt(idx)
        b == bet(chips[p], current_bet[p], blind)
    IN  /\ chips' = [chips EXCEPT ![p] = b.chips]
        /\ current_bet' = [current_bet EXCEPT ![p] = b.current_bet]
        /\ IF b.error # None
           THEN /\ pc' = "crashed"
                /\ lastEvent' = Event(kind, p, blind, b.error)
                /\ idx' = idx
           ELSE /\ pc' = "loop"
                /\ lastEvent' = Event(kind, p, blind, None)
                /\ idx' = idx + 1
        /\ UNCHANGED <<numPlayers, is_active, players_in_game, cardVars, potVars,
                       current_betting_round, street, active_players, resultVars,
                       otherSpecs>>

\* if not player.is_active: continue
SkipInactive ==
    /\ pc = "loop" /\ idx < numPlayers
    /\ ~is_active[SeatAt(idx)]
    /\ idx' = idx + 1
    /\ lastEvent' = Event("skip", SeatAt(idx), 0, None)
    /\ UNCHANGED <<numPlayers, seatVars, cardVars, potVars, current_betting_round, pc,
                   street, active_players, resultVars, otherSpecs>>

PostSmallBlind ==
    /\ pc = "loop" /\ idx < numPlayers
    /\ is_active[SeatAt(idx)]
    /\ idx = small_blind_player_idx
    /\ PostBlind("small blind", SMALL_BLIND)

PostBigBlind ==
    /\ pc = "loop" /\ idx < numPlayers
    /\ is_active[SeatAt(idx)]
    /\ idx # small_blind_player_idx /\ idx = big_blind_player_idx
    /\ PostBlind("big blind", BIG_BLIND)

\* the seat at idx is asked for its action
AtActionPrompt ==
    /\ pc = "loop" /\ idx < numPlayers
    /\ is_active[SeatAt(idx)]
    /\ idx # small_blind_player_idx /\ idx # big_blind_player_idx

\* an input that is none of VALID_ACTIONS: the prompt is repeated
InvalidAction ==
    /\ AtActionPrompt
    /\ \E input \in ActionInputs \ VALID_ACTIONS :
          lastEvent' = Event("invalid action", SeatAt(idx), input, None)
    /\ UNCHANGED <<numPlayers, seatVars, cardVars, potVars, current_betting_round, pc,
                   street, idx, active_players, resultVars, otherSpecs>>

\* 'fold': player.fold(), game_state.player_fold, then update_pot and
\* update_max_bet with the seat's current_bet as it stands
Fold ==
    /\ AtActionPrompt
    /\ LET p == SeatAt(idx)
       IN  /\ is_active' = [is_active EXCEPT ![p] = FALSE]
           /\ players_in_game' = [players_in_game EXCEPT ![p] = FALSE]
           /\ pot_size' = update_pot(pot_size, current_bet[p])
           /\ current_max_bet' = update_max_bet(current_max_bet, current_bet[p])
           /\ lastEvent' = Event("fold", p, 0, None)
    /\ idx' = idx + 1
    /\ UNCHANGED <<numPlayers, chips, current_bet, cardVars, current_betting_round, pc,
                   street, active_players, resultVars, otherSpecs>>

\* 'call': player.call(current_max_bet), then update_pot and update_max_bet
Call ==
    /\ AtActionPrompt
    /\ LET p == SeatAt(idx)
           b == call(chips[p], current_bet[p], current_max_bet)
       IN  /\ chips' = [chips EXCEPT ![p] = b.chips]
           /\ current_bet' = [current_bet EXCEPT ![p] = b.current_bet]
           /\ IF b.error # None
              THEN /\ pc' = "crashed"
                   /\ lastEvent' = Event("call", p, current_max_bet, b.error)
                   /\ UNCHANGED <<potVars, idx>>
              ELSE /\ pot_size' = update_pot(pot_size, b.current_bet)
                   /\ current_max_bet' = update_max_bet(current_max_bet, b.current_bet)
                   /\ pc' = "loop"
                   /\ lastEvent' = Event("call", p, current_max_bet, None)
                   /\ idx' = idx + 1
    /\ active_players' = active_players + 1
    /\ UNCHANGED <<numPlayers, is_active, players_in_game, cardVars,
                   current_betting_round, street, resultVars, otherSpecs>>

\* 'raise': the seat is counted as active and asked for the amount
ChooseRaise ==
    /\ AtActionPrompt
    /\ active_players' = active_players + 1
    /\ pc' = "ask_raise"
    /\ lastEvent' = Event("raise chosen", SeatAt(idx), 0, None)
    /\ UNCHANGED <<numPlayers, seatVars, cardVars, potVars, current_betting_round,
                   street, idx, resultVars, otherSpecs>>

\* the bet prompt's while loop: the input is refused and the prompt repeated
RaiseRejected ==
    /\ pc = "ask_raise"
    /\ \E input \in RaiseInputs :
          /\ ~RaiseInputTaken(input, current_max_bet, chips[SeatAt(idx)])
          /\ lastEvent' = Event("raise rejected", SeatAt(idx), input, None)
    /\ UNCHANGED <<numPlayers, seatVars, cardVars, potVars, current_betting_round, pc,
                   street, idx, active_players, resultVars, otherSpecs>>

\* the input is taken: player.raise_bet(bet), then update_pot and update_max_bet
RaiseAccepted ==
    /\ pc = "ask_raise"
    /\ \E input \in RaiseInputs :
          /\ RaiseInputTaken(input, current_max_bet, chips[SeatAt(idx)])
          /\ LET p == SeatAt(idx)
                 b == raise_bet(chips[p], current_bet[p], input)
             IN  /\ chips' = [chips EXCEPT ![p] = b.chips]
                 /\ current_bet' = [current_bet EXCEPT ![p] = b.current_bet]
                 /\ IF b.error # None
                    THEN /\ pc' = "crashed"
                         /\ lastEvent' = Event("raise", p, input, b.error)
                         /\ UNCHANGED <<potVars, idx>>
                    ELSE /\ pot_size' = update_pot(pot_size, b.current_bet)
                         /\ current_max_bet' =
                                update_max_bet(current_max_bet, b.current_bet)
                         /\ pc' = "loop"
                         /\ lastEvent' = Event("raise", p, input, None)
                         /\ idx' = idx + 1
    /\ UNCHANGED <<numPlayers, is_active, players_in_game, cardVars,
                   current_betting_round, street, active_players, resultVars,
                   otherSpecs>>

\* the for loop is over: betting_round returns active_players
EndBettingRound ==
    /\ pc = "loop" /\ idx = numPlayers
    /\ pc' = "returned"
    /\ lastEvent' = Event("round completed", -1, active_players, None)
    /\ UNCHANGED <<numPlayers, seatVars, cardVars, potVars, current_betting_round,
                   street, idx, active_players, resultVars, otherSpecs>>

\* play after a betting round that returned more than 1: the next cards are
\* dealt by deal_cards and the next betting_round() starts
NextStreet(from, dealt) ==
    /\ pc = "returned" /\ street = from
    /\ active_players > 1
    /\ IF dealt.error # None
       THEN /\ pc' = "crashed"
            /\ lastEvent' = Event("street dealt", -1, from + 1, dealt.error)
            /\ UNCHANGED <<street, idx, active_players>>
       ELSE /\ pc' = "loop"
            /\ street' = from + 1
            /\ idx' = 0
            /\ active_players' = 0
            /\ lastEvent' = Event("street dealt", -1, from + 1, None)
    /\ deck' = dealt.cards
    /\ board' = dealt.board
    /\ UNCHANGED <<numPlayers, seatVars, hand, potVars, current_betting_round,
                   resultVars, otherSpecs>>

DealCommunityCards == NextStreet(1, deal_community_cards(deck, board))

DealTurn == NextStreet(2, deal_turn(deck, board))

DealRiver == NextStreet(3, deal_river(deck, board))

\* play's last two lines: display_hands, then show_results, for all players;
\* r is what show_results gave
ShowdownOutcome(r) ==
    /\ displayed' = Players
    /\ evaluated' = Players
    /\ winners' = r.winners
    /\ pc' = IF r.error # None THEN "crashed" ELSE "done"
    /\ lastEvent' = Event("results", -1, 0, r.error)

DisplayAndShowResults ==
    /\ pc = "returned"
    /\ street = 4 \/ active_players <= 1
    /\ ShowdownOutcome(show_results(hand, board))
    /\ UNCHANGED <<numPlayers, seatVars, cardVars, potVars, current_betting_round,
                   street, idx, active_players, otherSpecs>>

Next ==
    \/ DealHoleCards
    \/ SkipInactive
    \/ PostSmallBlind
    \/ PostBigBlind
    \/ InvalidAction
    \/ Fold
    \/ Call
    \/ ChooseRaise
    \/ RaiseRejected
    \/ RaiseAccepted
    \/ EndBettingRound
    \/ DealCommunityCards
    \/ DealTurn
    \/ DealRiver
    \/ DisplayAndShowResults

Spec == Init /\ [][Next]_vars

-----------------------------------------------------------------------------
(* Claims about the betting of one hand *)

\* the seats that have not folded
ActiveSeats == {p \in Players : is_active[p]}

\* C1: at the bet prompt an amount is accepted only if it is strictly greater than
\* current_max_bet, at least 2 x BIG_BLIND and at most the acting seat's chips, and
\* then current_max_bet becomes that amount; any other input is rejected with the
\* seat's chips and current_bet, the pot and current_max_bet unchanged and the same
\* seat prompted again.
C1_RaiseValidation ==
    [][pc = "ask_raise" =>
        LET p == SeatAt(idx)
            a == lastEvent'.input
        IN  IF /\ a # NotDigits
               /\ a > current_max_bet
               /\ a >= 2 * BIG_BLIND
               /\ a <= chips[p]
            THEN /\ lastEvent'.kind = "raise" /\ lastEvent'.error = None
                 /\ lastEvent'.seat = p
                 /\ current_max_bet' = a
                 /\ pc' = "loop"
            ELSE /\ lastEvent'.kind = "raise rejected"
                 /\ lastEvent'.seat = p
                 /\ chips' = chips
                 /\ current_bet' = current_bet
                 /\ pot_size' = pot_size
                 /\ current_max_bet' = current_max_bet
                 /\ pc' = "ask_raise" /\ idx' = idx /\ street' = street]_vars

\* C1's case: an amount the seat can pay and that is at least 2 x BIG_BLIND was
\* rejected because it only equals current_max_bet
C1_EqualAmountRejected ==
    /\ pc = "ask_raise"
    /\ lastEvent.kind = "raise rejected"
    /\ lastEvent.input = current_max_bet
    /\ lastEvent.input >= 2 * BIG_BLIND
    /\ lastEvent.input <= chips[lastEvent.seat]

\* C2: when the hand is over and all but one seat has folded, no hand was evaluated
\* or revealed and the one active seat is the only winner reported.
C2_LastSeatWinsWithoutShowdown ==
    (pc = "done" /\ Cardinality(ActiveSeats) = 1) =>
        /\ evaluated = {}
        /\ displayed = {}
        /\ winners = ActiveSeats

\* C2's failing input: five players; before the flop seat 0 folds and seats 4 and 1
\* call; on the second street seat 2 folds and seats 3 and 4 call; on the third
\* seats 3 and 4 fold, so only seat 1 is left in
C2_FailingInputReached ==
    /\ pc = "done"
    /\ numPlayers = 5
    /\ street = 3
    /\ ActiveSeats = {1}
    /\ evaluated = Players
    /\ displayed = Players

\* C3: when a seat calls and current_max_bet exceeds its chips, its chips become 0,
\* its current_bet its former stack, the pot grows by that former stack, and no
\* error is raised.
C3_CallBeyondStackIsAllIn ==
    [][(pc = "loop" /\ lastEvent'.kind = "call"
            /\ current_max_bet > chips[lastEvent'.seat]) =>
        LET p == lastEvent'.seat
        IN  /\ chips'[p] = 0
            /\ current_bet'[p] = chips[p]
            /\ pot_size' = pot_size + chips[p]
            /\ lastEvent'.error = None
            /\ pc' # "crashed"]_vars

\* C3's case: a seat with chips left has called a larger current_max_bet
C3_AllInCallMade ==
    /\ lastEvent.kind = "call"
    /\ chips[lastEvent.seat] = 0
    /\ current_bet[lastEvent.seat] > 0
    /\ lastEvent.input > current_bet[lastEvent.seat]

\* C11: when a betting round has ended, every seat still active has a current_bet
\* equal to current_max_bet or has no chips left.
C11_BetsMatchedAtRoundEnd ==
    pc = "returned" =>
        \A p \in ActiveSeats : current_bet[p] = current_max_bet \/ chips[p] = 0

\* C11's failing input: four players; before the flop seat 0 raises to 50 and
\* seat 1 calls; the round ends with the small blind, seat 2, active, 5 committed
\* and 95 chips in hand
C11_FailingInputReached ==
    /\ pc = "returned"
    /\ numPlayers = 4
    /\ street = 1
    /\ current_max_bet = 50
    /\ is_active[2]
    /\ current_bet[2] = SMALL_BLIND
    /\ chips[2] = INITIAL_CHIPS - SMALL_BLIND

\* C12: the value betting_round returns is the number of seats whose is_active
\* flag is true when the round ends, so a hand that ends before the last street
\* has at most one seat still active.
C12_ReturnsActiveSeatCount ==
    /\ pc = "returned" => active_players = Cardinality(ActiveSeats)
    /\ (pc = "done" /\ street < 4) => Cardinality(ActiveSeats) <= 1

\* C12's failing input: two players; both post a blind, nobody is asked for an
\* action, and the round returns 0 with both seats active
C12_FailingInputReached ==
    /\ pc = "returned"
    /\ numPlayers = 2
    /\ street = 1
    /\ active_players = 0
    /\ ActiveSeats = {0, 1}

\* C13: a blind is posted only in the preflop betting round, 5 chips for the small
\* blind and 10 for the big blind; in the later rounds no seat posts a blind.
C13_BlindsPreflopOnly ==
    /\ lastEvent.kind = "small blind" => (street = 1 /\ lastEvent.input = 5)
    /\ lastEvent.kind = "big blind" => (street = 1 /\ lastEvent.input = 10)

\* C13's failing input: four players; before the flop seat 0 raises to 50 and
\* seat 1 calls; in the second betting round seat 0 posts the small blind
C13_FailingInputReached ==
    /\ pc = "loop"
    /\ numPlayers = 4
    /\ street = 2
    /\ lastEvent.kind = "small blind" /\ lastEvent.error = None
    /\ lastEvent.seat = 0
    /\ current_bet[0] = SMALL_BLIND
    /\ chips[0] = INITIAL_CHIPS - 50 - SMALL_BLIND

\* C14: when play starts a betting round after the preflop round,
\* current_max_bet is 0 while pot_size and every seat's chips are what they were
\* when the previous round ended.
C14_MaxBetResetPerStreet ==
    [][(pc = "returned" /\ pc' = "loop") =>
        /\ current_max_bet' = 0
        /\ pot_size' = pot_size
        /\ chips' = chips]_vars

\* C14's failing input: four players; before the flop seat 0 raises to 50 and
\* seat 1 calls; the second betting round starts with current_max_bet still 50
C14_FailingInputReached ==
    /\ pc = "loop" /\ idx = 0
    /\ numPlayers = 4
    /\ street = 2
    /\ lastEvent.kind = "street dealt"
    /\ current_max_bet = 50
    /\ pot_size = 100

\* C15: a fold sets the seat's is_active flag and its players_in_game entry
\* to false and leaves pot_size, current_max_bet and every seat's chips unchanged.
C15_FoldLeavesPotUnchanged ==
    [][(pc = "loop" /\ lastEvent'.kind = "fold") =>
        LET p == lastEvent'.seat
        IN  /\ ~is_active'[p]
            /\ ~players_in_game'[p]
            /\ pot_size' = pot_size
            /\ current_max_bet' = current_max_bet
            /\ chips' = chips]_vars

\* C15's failing input: four players; before the flop seats 0 and 1 call; in the
\* second betting round seat 2, which posted the small blind before the flop,
\* folds, and its 5 are added to the pot and become the max bet
C15_FailingInputReached ==
    /\ numPlayers = 4
    /\ street = 2
    /\ lastEvent.kind = "fold" /\ lastEvent.seat = 2
    /\ ~is_active[2]
    /\ chips[2] = INITIAL_CHIPS - SMALL_BLIND
    /\ pot_size = SMALL_BLIND
    /\ current_max_bet = SMALL_BLIND

\* the number of board cards the claim gives each betting round
BoardCardsOfStreet == (1 :> 0) @@ (2 :> 3) @@ (3 :> 4) @@ (4 :> 5)

\* C16: the board holds 0 cards during preflop betting, 3 during the flop round,
\* 4 during the turn round, 5 during the river round, and never more than 5.
C16_BoardSizePerStreet ==
    /\ pc \in {"loop", "ask_raise", "returned"} => Len(board) = BoardCardsOfStreet[street]
    /\ Len(board) <= 5

\* C16's failing input: a hand played to the last betting round is shown down
\* with 7 board cards
C16_FailingInputReached ==
    /\ pc = "done"
    /\ street = 4
    /\ Len(board) = 7
    /\ evaluated = Players

\* C17: every player show_results reports as a winner has a ranking no other
\* player's ranking is above: no other player has a higher category, or the same
\* category with a higher tie-break key.
C17_WinnersAreMaximal ==
    sd_pc = "done" =>
        \A w \in sd_winners :
            \A o \in DOMAIN sd_hands : ~RankingBelow(sd_rankings[w], sd_rankings[o])


\* C17's failing input: on the board K, 9, 9, 5, A the first player holds king-five
\* (Two Pair, kings and fives) and the second ace-two (Two Pair, aces and nines);
\* only the first is reported
C17_FailingInputReached ==
    /\ sd_pc = "done"
    /\ sd_hands[0] = <<Card("Hearts", "K"), Card("Diamonds", "5")>>
    /\ sd_hands[1] = <<Card("Hearts", "A"), Card("Diamonds", "2")>>
    /\ sd_board = <<Card("Spades", "K"), Card("Clubs", "9"), Card("Diamonds", "9"),
                    Card("Clubs", "5"), Card("Spades", "A")>>
    /\ sd_rankings[0][1] = HAND_RANKINGS["Two Pair"]
    /\ RankNames(sd_rankings[0][2]) = <<"K", "K", "5", "5">>
    /\ sd_rankings[1][1] = HAND_RANKINGS["Two Pair"]
    /\ RankNames(sd_rankings[1][2]) = <<"A", "A", "9", "9">>
    /\ sd_winners = {0}


\* C18: when the hole and board cards together are fewer than 5, evaluate_hand
\* returns the ranking 0 with no contributing cards.
C18_FewCardsGiveNoHand ==
    (Evaluated /\ Len(EvAllCards) < 5) => ev_result = <<0, <<>>>>

\* C18's failing input: two twos in the hole and an empty board come out as Pair
C18_FailingInputReached ==
    /\ ev_pc = "done"
    /\ ev_hand = <<Card("Clubs", "2"), Card("Diamonds", "2")>>
    /\ ev_board = <<>>
    /\ ev_result = <<HAND_RANKINGS["Pair"],
                     <<Card("Clubs", "2"), Card("Diamonds", "2")>>>>


\* C19: no betting step aborts the hand with Player.bet's "not enough chips"
\* error, and no seat's chips become negative.
C19_NoBetAbortsTheHand ==
    /\ pc # "crashed"
    /\ \A p \in Players : chips[p] >= 0

\* C19's failing input: Player 1 went all-in before the flop and is asked for
\* the small blind of the second round with no chips left
C19_FailingInputReached ==
    /\ pc = "crashed"
    /\ numPlayers = 4
    /\ street = 2
    /\ lastEvent.kind = "small blind"
    /\ lastEvent.seat = 0
    /\ lastEvent.error # None
    /\ chips[0] = 0
    /\ pot_size = 2 * INITIAL_CHIPS


\* the chips held by the seats 0 .. n - 1 together
RECURSIVE ChipsOfSeatsBelow(_)
ChipsOfSeatsBelow(n) ==
    IF n = 0 THEN 0 ELSE chips[n - 1] + ChipsOfSeatsBelow(n - 1)

\* C20: in every state the pot and the seats' chips together are the 100 chips
\* per seat that the hand started with.
C20_ChipsConserved ==
    pot_size + ChipsOfSeatsBelow(numPlayers) = INITIAL_CHIPS * numPlayers

\* C20's failing input: the small blind of the first round has left its seat
\* and has not reached the pot
C20_FailingInputReached ==
    /\ pc = "loop"
    /\ numPlayers = 2
    /\ street = 1
    /\ lastEvent.kind = "small blind"
    /\ lastEvent.error = None
    /\ chips[lastEvent.seat] = INITIAL_CHIPS - SMALL_BLIND
    /\ pot_size = 0
    /\ ChipsOfSeatsBelow(numPlayers) = 2 * INITIAL_CHIPS - SMALL_BLIND

=============================================================================
